---- MODULE Spec2Model ----
(***************************************************************************)
(* A model of the feed-forward network engine of MilkyWay96/neural:        *)
(* src/network.rs (Network), src/network/layer.rs (Layer), src/losses.rs   *)
(* (LossFn, MSE), src/activations.rs (Sigmoid), src/dataset.rs (Sample).   *)
(*                                                                         *)
(* Numbers.  The crate computes in f32.  The model computes in integers:   *)
(* +, - and * are exact, / is \div, and Sigmoid is quantised to the three  *)
(* levels 1, 2, 3 (quarters).  Rounding of f32 arithmetic is therefore not *)
(* part of the model; every statement below is about the structure of the  *)
(* computation (what is read, written, accumulated and in which order).    *)
(*                                                                         *)
(* Vectors are sequences, a matrix is the sequence of its rows (row =      *)
(* output index, column = input index), and indices are 1-based; an index  *)
(* reported to the caller is converted back to the 0-based one of the code.*)
(***************************************************************************)
EXTENDS Integers, Sequences, FiniteSets, TLC

\* ------------------------------------------------------------------ bounds
\* longest layer_sizes slice handed to a constructor
MaxLayers == 3
\* largest entry of layer_sizes, longest input / expected-output vector
MaxSize == 2
\* longest dataset handed to backpropagate / learn
MaxData == 2
\* number of forward / backpropagate / learn calls made on one network
MaxCalls == 2
\* number of distinct states of the thread-local random generator
NumSeeds == 1

\* entries of the caller's input vectors, of the expected outputs, and the
\* learning rates the caller passes
InputVals == {1, 2}
ExpectedVals == {0}
Rates == {1, 2}

\* ----------------------------------------------------------------- helpers
RECURSIVE SumSeq(_)
SumSeq(s) == IF s = <<>> THEN 0 ELSE Head(s) + SumSeq(Tail(s))

Fill(n, v) == [i \in 1..n |-> v]

Dot(row, v) == SumSeq([i \in 1..Len(row) |-> row[i] * v[i]])

\* ------------------------------------------------------------- activations
Sigmoid_apply(x) == IF x <= -1 THEN 1 ELSE IF x >= 1 THEN 3 ELSE 2

Sigmoid_derivative(x, activation) == activation * (4 - activation)

\* ------------------------------------------------------------------ losses
NoError == [tag |-> "none"]

OutputSizeMismatch(given, expected) ==
    [tag |-> "OutputSizeMismatch", given_output_size |-> given,
     expected_output_size |-> expected]

OutputIndexOutOfRange(size, index) ==
    [tag |-> "OutputIndexOutOfRange", output_size |-> size, output_index |-> index]

MSE_apply(output, expected_output) ==
    SumSeq([i \in 1..Len(output) |->
              (output[i] - expected_output[i]) * (output[i] - expected_output[i])])
      \div Len(output)

\* with_respect_to is the 0-based index of the code
MSE_partial_derivative(output, expected_output, with_respect_to) ==
    (2 * (output[with_respect_to + 1] - expected_output[with_respect_to + 1]))
      \div Len(output)

\* faulty variant: only an output longer than the expected output is refused
LossSizesDiffer_one_way(output, expected_output) == Len(output) > Len(expected_output)

LossSizesDiffer(output, expected_output) == Len(output) # Len(expected_output)

LossFn_apply(output, expected_output) ==
    IF LossSizesDiffer(output, expected_output)
    THEN [ok |-> FALSE, val |-> 0, inner |-> FALSE,
          err |-> OutputSizeMismatch(Len(output), Len(expected_output))]
    ELSE [ok |-> TRUE, val |-> MSE_apply(output, expected_output), inner |-> TRUE,
          err |-> NoError]

LossFn_partial_derivative(output, expected_output, with_respect_to) ==
    IF LossSizesDiffer(output, expected_output)
    THEN [ok |-> FALSE, val |-> 0, inner |-> FALSE,
          err |-> OutputSizeMismatch(Len(output), Len(expected_output))]
    ELSE IF with_respect_to >= Len(output)
    THEN [ok |-> FALSE, val |-> 0, inner |-> FALSE,
          err |-> OutputIndexOutOfRange(Len(output), with_respect_to)]
    ELSE [ok |-> TRUE, inner |-> TRUE, err |-> NoError,
          val |-> MSE_partial_derivative(output, expected_output, with_respect_to)]

\* the gradient form of the loss interface that Network::backpropagate calls:
\* the checked partial derivative with respect to every output index
LossFn_partial_gradient(output, expected_output) ==
    IF LossSizesDiffer(output, expected_output)
    THEN [ok |-> FALSE, val |-> <<>>, inner |-> FALSE,
          err |-> OutputSizeMismatch(Len(output), Len(expected_output))]
    ELSE [ok |-> TRUE, inner |-> TRUE, err |-> NoError,
          val |-> [i \in 1..Len(output) |->
                     LossFn_partial_derivative(output, expected_output, i - 1).val]]

\* ------------------------------------------------------------------- layer
InputSizeMismatch(layer_input_size, given_input_size) ==
    [tag |-> "InputSizeMismatch", layer_input_size |-> layer_input_size,
     given_input_size |-> given_input_size]

ZeroInputSize == [tag |-> "ZeroInputSize"]

ZeroOutputSize == [tag |-> "ZeroOutputSize"]

check_sizes(input_size, output_size) ==
    IF input_size = 0 THEN ZeroInputSize
    ELSE IF output_size = 0 THEN ZeroOutputSize
    ELSE NoError

\* the k-th value (k = 1, 2, ...) the generator in state seed draws from the
\* caller's distribution
Draw(seed, k) == IF (seed + k) % 3 = 0 THEN -1 ELSE 1

\* random_vec(size, distribution) taken from position offset of the stream
random_vec(size, seed, offset) == [k \in 1..size |-> Draw(seed, offset + k)]

NoLayer == [weights |-> <<>>, weight_gradient |-> <<>>, biases |-> <<>>,
            bias_gradient |-> <<>>, previous_inputs |-> <<>>,
            previous_weighted_sums |-> <<>>]

Layer_zeros(input_size, output_size) ==
    LET e == check_sizes(input_size, output_size) IN
    IF e # NoError THEN [ok |-> FALSE, err |-> e, layer |-> NoLayer]
    ELSE [ok |-> TRUE, err |-> NoError,
          layer |-> [weights |-> Fill(output_size, Fill(input_size, 0)),
                     weight_gradient |-> Fill(output_size, Fill(input_size, 0)),
                     biases |-> Fill(output_size, 0),
                     bias_gradient |-> Fill(output_size, 0),
                     previous_inputs |-> Fill(input_size, 0),
                     previous_weighted_sums |-> Fill(output_size, 0)]]

\* DMatrix::from_vec fills column by column: entry (o, i) is element
\* (i - 1) * output_size + o of the vector
Layer_random(input_size, output_size, seed, offset) ==
    LET e == check_sizes(input_size, output_size)
        wv == random_vec(output_size * input_size, seed, offset)
        bv == random_vec(output_size, seed, offset + output_size * input_size)
    IN
    IF e # NoError THEN [ok |-> FALSE, err |-> e, layer |-> NoLayer]
    ELSE [ok |-> TRUE, err |-> NoError,
          layer |-> [weights |-> [o \in 1..output_size |->
                                    [i \in 1..input_size |->
                                       wv[(i - 1) * output_size + o]]],
                     weight_gradient |-> Fill(output_size, Fill(input_size, 0)),
                     biases |-> bv,
                     bias_gradient |-> Fill(output_size, 0),
                     previous_inputs |-> Fill(input_size, 0),
                     previous_weighted_sums |-> Fill(output_size, 0)]]

\* ncols and nrows of the weight matrix
input_size(l) == Len(l.weights[1])

output_size(l) == Len(l.weights)

get_previous_input(l) == l.previous_inputs

\* faulty variant: the two sizes of the error are exchanged
check_input_size_swapped(l, given) ==
    IF Len(l.weights[1]) # given THEN InputSizeMismatch(given, Len(l.weights[1]))
    ELSE NoError

check_input_size(l, given) ==
    IF input_size(l) # given THEN InputSizeMismatch(input_size(l), given)
    ELSE NoError

Layer_forward(l, inputs) ==
    LET e == check_input_size(l, Len(inputs))
        sums == [o \in 1..output_size(l) |-> Dot(l.weights[o], inputs) + l.biases[o]]
    IN
    IF e # NoError THEN [ok |-> FALSE, err |-> e, layer |-> l, out |-> <<>>]
    ELSE [ok |-> TRUE, err |-> NoError,
          layer |-> [l EXCEPT !.previous_weighted_sums = sums,
                              !.previous_inputs = inputs],
          out |-> [o \in 1..output_size(l) |-> Sigmoid_apply(sums[o])]]

\* bias_partial_derivative of every output index
BiasPartials(l, previous_outputs, output_partial_gradient) ==
    [o \in 1..output_size(l) |->
       Sigmoid_derivative(l.previous_weighted_sums[o], previous_outputs[o])
         * output_partial_gradient[o]]

\* faulty variant: the bias accumulator is assigned, not added to
backpropagation_step_overwrite(l, previous_outputs, output_partial_gradient) ==
    LET d == BiasPartials(l, previous_outputs, output_partial_gradient) IN
    [layer |->
       [l EXCEPT
          !.bias_gradient = d,
          !.weight_gradient =
             [o \in 1..Len(l.weights) |->
                [i \in 1..Len(l.weights[1]) |->
                   l.weight_gradient[o][i] + l.previous_inputs[i] * d[o]]]],
     input_partial_gradient |->
       [i \in 1..Len(l.weights[1]) |->
          SumSeq([o \in 1..Len(l.weights) |-> l.weights[o][i] * d[o]])]]

\* faulty variant: the step adds to the biases instead of the bias accumulator
backpropagation_step_writes_biases(l, previous_outputs, output_partial_gradient) ==
    LET d == BiasPartials(l, previous_outputs, output_partial_gradient) IN
    [layer |->
       [l EXCEPT
          !.biases = [o \in 1..Len(l.weights) |-> l.biases[o] + d[o]],
          !.weight_gradient =
             [o \in 1..Len(l.weights) |->
                [i \in 1..Len(l.weights[1]) |->
                   l.weight_gradient[o][i] + l.previous_inputs[i] * d[o]]]],
     input_partial_gradient |->
       [i \in 1..Len(l.weights[1]) |->
          SumSeq([o \in 1..Len(l.weights) |-> l.weights[o][i] * d[o]])]]

backpropagation_step(l, previous_outputs, output_partial_gradient) ==
    LET d == BiasPartials(l, previous_outputs, output_partial_gradient) IN
    [layer |->
       [l EXCEPT
          !.bias_gradient = [o \in 1..output_size(l) |-> l.bias_gradient[o] + d[o]],
          !.weight_gradient =
             [o \in 1..output_size(l) |->
                [i \in 1..input_size(l) |->
                   l.weight_gradient[o][i] + l.previous_inputs[i] * d[o]]]],
     input_partial_gradient |->
       [i \in 1..input_size(l) |->
          SumSeq([o \in 1..output_size(l) |-> l.weights[o][i] * d[o]])]]

\* faulty variant: the bias accumulator is not reset
apply_gradient_no_reset(l, scale) ==
    [l EXCEPT
       !.weights = [o \in 1..Len(l.weights) |->
                      [i \in 1..Len(l.weights[1]) |->
                         l.weights[o][i] + l.weight_gradient[o][i] * scale]],
       !.biases = [o \in 1..Len(l.weights) |->
                     l.biases[o] + l.bias_gradient[o] * scale],
       !.weight_gradient = Fill(Len(l.weights), Fill(Len(l.weights[1]), 0))]

apply_gradient(l, scale) ==
    [l EXCEPT
       !.weights = [o \in 1..output_size(l) |->
                      [i \in 1..input_size(l) |->
                         l.weights[o][i] + l.weight_gradient[o][i] * scale]],
       !.biases = [o \in 1..output_size(l) |->
                     l.biases[o] + l.bias_gradient[o] * scale],
       !.weight_gradient = Fill(output_size(l), Fill(input_size(l), 0)),
       !.bias_gradient = Fill(output_size(l), 0)]

\* ----------------------------------------------------------------- network
TooFewLayers(n) == [tag |-> "TooFewLayers", n |-> n]

ZeroLayerSize(index) == [tag |-> "ZeroLayerSize", index |-> index]

LayerError(e) == [tag |-> "LayerError", source |-> e]

LossFnError(e) == [tag |-> "LossFnError", source |-> e]

\* layer_sizes.iter().position(|&x| x == 0), as a 0-based index
ZeroPosition(layer_sizes) ==
    (CHOOSE i \in 1..Len(layer_sizes) :
        /\ layer_sizes[i] = 0
        /\ \A j \in 1..(i - 1) : layer_sizes[j] # 0) - 1

\* faulty variant: the test for a zero size is made first
check_layer_sizes_zero_first(layer_sizes) ==
    IF \E i \in 1..Len(layer_sizes) : layer_sizes[i] = 0
    THEN ZeroLayerSize(ZeroPosition(layer_sizes))
    ELSE IF Len(layer_sizes) < 2 THEN TooFewLayers(Len(layer_sizes))
    ELSE NoError

check_layer_sizes(layer_sizes) ==
    IF Len(layer_sizes) < 2 THEN TooFewLayers(Len(layer_sizes))
    ELSE IF \E i \in 1..Len(layer_sizes) : layer_sizes[i] = 0
    THEN ZeroLayerSize(ZeroPosition(layer_sizes))
    ELSE NoError

\* faulty variant: the slice is zipped with itself, without the skip
SizePairs_no_skip(layer_sizes) ==
    [i \in 1..(Len(layer_sizes) - 1) |-> <<layer_sizes[i], layer_sizes[i]>>]

\* layer_sizes.iter().zip(layer_sizes.iter().skip(1))
SizePairs(layer_sizes) ==
    [i \in 1..(Len(layer_sizes) - 1) |-> <<layer_sizes[i], layer_sizes[i + 1]>>]

\* number of values the generator has handed out before layer i is built
RECURSIVE DrawnBefore(_, _)
DrawnBefore(pairs, i) ==
    IF i <= 1 THEN 0
    ELSE DrawnBefore(pairs, i - 1)
           + pairs[i - 1][2] * pairs[i - 1][1] + pairs[i - 1][2]

\* the constructor closure of Network::zeros (kind "zeros") or of
\* Network::random (kind "random"), applied to the i-th pair of sizes
Constructor(kind, seed, pairs, i) ==
    IF kind = "zeros" THEN Layer_zeros(pairs[i][1], pairs[i][2])
    ELSE Layer_random(pairs[i][1], pairs[i][2], seed, DrawnBefore(pairs, i))

\* collect() into Result<Vec<Layer>, LayerError>: the first error, else all
construct_layers(layer_sizes, kind, seed) ==
    LET pairs == SizePairs(layer_sizes)
        built == [i \in 1..Len(pairs) |-> Constructor(kind, seed, pairs, i)]
        bad == {i \in 1..Len(pairs) : ~built[i].ok}
    IN
    IF bad # {}
    THEN [ok |-> FALSE, layers |-> <<>>,
          err |-> built[CHOOSE i \in bad : \A j \in bad : i <= j].err]
    ELSE [ok |-> TRUE, err |-> NoError,
          layers |-> [i \in 1..Len(pairs) |-> built[i].layer]]

\* Network::zeros and Network::random
Network_new(layer_sizes, kind, seed) ==
    LET e == check_layer_sizes(layer_sizes)
        c == construct_layers(layer_sizes, kind, seed)
    IN
    IF e # NoError THEN [ok |-> FALSE, err |-> e, layers |-> <<>>]
    ELSE IF ~c.ok THEN [ok |-> FALSE, err |-> LayerError(c.err), layers |-> <<>>]
    ELSE [ok |-> TRUE, err |-> NoError, layers |-> c.layers]

\* try_fold over the layers, from layer i on
RECURSIVE ForwardFrom(_, _, _)
ForwardFrom(layers, i, activations) ==
    IF i > Len(layers)
    THEN [ok |-> TRUE, err |-> NoError, layers |-> layers, out |-> activations]
    ELSE LET r == Layer_forward(layers[i], activations) IN
         IF ~r.ok
         THEN [ok |-> FALSE, err |-> LayerError(r.err), layers |-> layers, out |-> <<>>]
         ELSE ForwardFrom([layers EXCEPT ![i] = r.layer], i + 1, r.out)

Network_forward(layers, input) == ForwardFrom(layers, 1, input)

\* -rate / dataset.len() as f32
LearnScale(rate, len) == (0 - rate) \div len

\* ------------------------------------------------------------ state machine
VARIABLES
    layer_sizes,  \* the slice handed to the constructor
    network,      \* Option<Network>: [some, layers]
    pc,           \* where the caller / the running call stands
    frame,        \* arguments and locals of the running (or last) call
    ret,          \* what the last call returned
    entry,        \* the layers as they were when the running (or last) call began
    steps,        \* the backpropagation_step calls made for the current sample
    chain,        \* datasets of the successful backpropagate calls made since
                  \* the accumulators were last all zero
    clean,        \* FALSE once a failed call has left partial sums behind
    ncalls        \* calls made on the network

vars == <<layer_sizes, network, pc, frame, ret, entry, steps, chain, clean, ncalls>>

\* what the caller may pass
SizeLists == UNION {[1..n -> 0..MaxSize] : n \in 0..MaxLayers}

Vectors == {Fill(n, v) : n \in 1..MaxSize, v \in InputVals}

Samples == {[inputs |-> x, expected_outputs |-> Fill(m, e)] :
               x \in Vectors, m \in 1..MaxSize, e \in ExpectedVals}

NoFrame == [op |-> "none", len |-> 0, rate |-> 0, input |-> <<>>, dataset |-> <<>>,
            outputs |-> <<>>, gradient |-> <<>>, i |-> 0]

Ok(op, val) == [op |-> op, ok |-> TRUE, val |-> val, err |-> NoError, inner |-> FALSE]

Err(op, e) == [op |-> op, ok |-> FALSE, val |-> <<>>, err |-> e, inner |-> FALSE]

Init ==
    /\ layer_sizes = <<>>
    /\ network = [some |-> FALSE, layers |-> <<>>]
    /\ pc = "new"
    /\ frame = NoFrame
    /\ ret = Ok("none", <<>>)
    /\ entry = <<>>
    /\ steps = <<>>
    /\ chain = <<>>
    /\ clean = TRUE
    /\ ncalls = 0

\* Network::zeros / Network::random
Construct(sizes, kind, seed) ==
    /\ pc = "new"
    /\ LET r == Network_new(sizes, kind, seed) IN
       /\ layer_sizes' = sizes
       /\ network' = [some |-> r.ok, layers |-> r.layers]
       /\ ret' = IF r.ok THEN Ok(kind, <<>>) ELSE Err(kind, r.err)
       /\ pc' = IF r.ok THEN "idle" ELSE "failed"
    /\ UNCHANGED <<frame, entry, steps, chain, clean, ncalls>>

NetworkZeros == \E sizes \in SizeLists : Construct(sizes, "zeros", 0)

NetworkRandom == \E sizes \in SizeLists, seed \in 1..NumSeeds : Construct(sizes, "random", seed)

CanCall == pc = "idle" /\ ncalls < MaxCalls

\* Network::forward, called by the user
Forward ==
    /\ CanCall
    /\ \E input \in Vectors :
         LET r == Network_forward(network.layers, input) IN
         /\ network' = [network EXCEPT !.layers = r.layers]
         /\ ret' = IF r.ok THEN Ok("forward", r.out) ELSE Err("forward", r.err)
         /\ frame' = [NoFrame EXCEPT !.op = "forward", !.input = input]
    /\ entry' = network.layers
    /\ ncalls' = ncalls + 1
    /\ UNCHANGED <<layer_sizes, pc, steps, chain, clean>>

\* LossFn::apply, called by the user on the output forward has just returned
LossApply ==
    /\ pc = "idle"
    /\ ret.op = "forward"
    /\ ret.ok
    /\ \E m \in 1..MaxSize, e \in ExpectedVals :
         LET r == LossFn_apply(ret.val, Fill(m, e)) IN
         /\ frame' = [NoFrame EXCEPT
                        !.op = "loss_apply", !.outputs = ret.val,
                        !.dataset = <<[inputs |-> frame.input,
                                       expected_outputs |-> Fill(m, e)]>>]
         /\ ret' = [op |-> "loss_apply", ok |-> r.ok, val |-> <<r.val>>,
                    err |-> r.err, inner |-> r.inner]
    /\ UNCHANGED <<layer_sizes, network, pc, entry, steps, chain, clean, ncalls>>

\* Network::backpropagate, called by the user: entry to the loop over the dataset
Backpropagate ==
    /\ CanCall
    /\ \E len \in 0..MaxData :
         frame' = [NoFrame EXCEPT !.op = "backpropagate", !.len = len]
    /\ pc' = "bp_forward"
    /\ entry' = network.layers
    /\ steps' = <<>>
    /\ ncalls' = ncalls + 1
    /\ UNCHANGED <<layer_sizes, network, ret, chain, clean>>

\* faulty variant: no dataset counts as empty
is_empty_never(len) == len < 0

\* dataset.is_empty()
is_empty(len) == len = 0

\* Network::learn: the early return on an empty dataset, else up to the call
\* of backpropagate
Learn ==
    /\ CanCall
    /\ \E len \in 0..MaxData, rate \in Rates :
         /\ frame' = [NoFrame EXCEPT !.op = "learn", !.len = len, !.rate = rate]
         /\ IF is_empty(len)
            THEN /\ ret' = Ok("learn", <<>>)
                 /\ UNCHANGED pc
            ELSE /\ pc' = "bp_forward"
                 /\ UNCHANGED ret
    /\ entry' = network.layers
    /\ steps' = <<>>
    /\ ncalls' = ncalls + 1
    /\ UNCHANGED <<layer_sizes, network, chain, clean>>

\* the current sample of the loop
Sample == frame.dataset[Len(frame.dataset)]

\* backpropagate: the next sample of the dataset and its forward pass.  The
\* slice is read once, front to back, so the sample is drawn when the loop
\* reaches it.
BpForward ==
    /\ pc = "bp_forward"
    /\ Len(frame.dataset) < frame.len
    /\ \E sample \in Samples :
         LET r == Network_forward(network.layers, sample.inputs) IN
         /\ network' = [network EXCEPT !.layers = r.layers]
         /\ frame' = [frame EXCEPT !.dataset = Append(@, sample), !.outputs = r.out,
                                   !.gradient = <<>>, !.i = 0]
         /\ IF r.ok
            THEN /\ pc' = "bp_loss"
                 /\ UNCHANGED <<ret, clean>>
            ELSE /\ pc' = "idle"
                 /\ ret' = Err(frame.op, r.err)
                 /\ clean' = FALSE
    /\ steps' = <<>>
    /\ UNCHANGED <<layer_sizes, entry, chain, ncalls>>

\* backpropagate: loss.partial_gradient(outputs, sample.expected_outputs())?
BpLossGradient ==
    /\ pc = "bp_loss"
    /\ LET r == LossFn_partial_gradient(frame.outputs, Sample.expected_outputs) IN
       IF r.ok
       THEN /\ frame' = [frame EXCEPT !.gradient = r.val]
            /\ pc' = "bp_last"
            /\ UNCHANGED <<ret, clean>>
       ELSE /\ pc' = "idle"
            /\ ret' = [Err(frame.op, LossFnError(r.err)) EXCEPT !.inner = r.inner]
            /\ clean' = FALSE
            /\ UNCHANGED frame
    /\ UNCHANGED <<layer_sizes, network, entry, steps, chain, ncalls>>

\* the post-activation vector handed to layer i below the last one
StepOutputs(layers, i) == get_previous_input(layers[i + 1])

\* (0..self.layers.len() - 1).rev(): the layer stepped after layer i, and
\* whether the range still holds it
StepNext(i) == i - 1

\* faulty variant: the range starts one layer too high
InRange_skip_first(i) == i >= 2

InRange(i) == i >= 1

\* one backpropagation_step of layer i with the given arguments
BpStep(i, previous_outputs) ==
    LET r == backpropagation_step(network.layers[i], previous_outputs, frame.gradient) IN
    /\ network' = [network EXCEPT !.layers[i] = r.layer]
    /\ frame' = [frame EXCEPT !.gradient = r.input_partial_gradient, !.i = StepNext(i)]
    /\ steps' = Append(steps, [layer |-> i,
                               previous_inputs |-> network.layers[i].previous_inputs,
                               previous_weighted_sums |->
                                   network.layers[i].previous_weighted_sums,
                               previous_outputs |-> previous_outputs,
                               output_partial_gradient |-> frame.gradient,
                               input_partial_gradient |-> r.input_partial_gradient])
    /\ pc' = IF InRange(StepNext(i)) THEN "bp_loop" ELSE "bp_forward"
    /\ UNCHANGED <<layer_sizes, ret, entry, chain, clean, ncalls>>

\* backpropagate: the step of the last layer
BpLastStep ==
    /\ pc = "bp_last"
    /\ BpStep(Len(network.layers), frame.outputs)

\* backpropagate: one round of the loop over the remaining layers
BpLoopStep ==
    /\ pc = "bp_loop"
    /\ BpStep(frame.i, StepOutputs(network.layers, frame.i))

\* backpropagate called by the user returns Ok(())
BpReturn ==
    /\ pc = "bp_forward"
    /\ Len(frame.dataset) = frame.len
    /\ frame.op = "backpropagate"
    /\ pc' = "idle"
    /\ ret' = Ok("backpropagate", <<>>)
    /\ chain' = Append(chain, frame.dataset)
    /\ UNCHANGED <<layer_sizes, network, frame, entry, steps, clean, ncalls>>

\* learn after backpropagate has returned Ok(()): apply_gradient on every layer
LearnApply ==
    /\ pc = "bp_forward"
    /\ Len(frame.dataset) = frame.len
    /\ frame.op = "learn"
    /\ network' = [network EXCEPT !.layers =
                     [i \in 1..Len(network.layers) |->
                        apply_gradient(network.layers[i],
                                       LearnScale(frame.rate, frame.len))]]
    /\ pc' = "idle"
    /\ ret' = Ok("learn", <<>>)
    /\ chain' = <<>>
    /\ clean' = TRUE
    /\ UNCHANGED <<layer_sizes, frame, entry, steps, ncalls>>

Next ==
    \/ NetworkZeros
    \/ NetworkRandom
    \/ Forward
    \/ LossApply
    \/ Backpropagate
    \/ Learn
    \/ BpForward
    \/ BpLossGradient
    \/ BpLastStep
    \/ BpLoopStep
    \/ BpReturn
    \/ LearnApply

Spec == Init /\ [][Next]_vars

\* the user calls only the constructors, forward and learn
NextLearn ==
    \/ NetworkZeros
    \/ NetworkRandom
    \/ Forward
    \/ Learn
    \/ BpForward
    \/ BpLossGradient
    \/ BpLastStep
    \/ BpLoopStep
    \/ LearnApply

SpecLearn == Init /\ [][NextLearn]_vars

\* the user builds a network and evaluates it: constructors, forward, and the
\* loss of what forward returned
NextBuild ==
    \/ NetworkZeros
    \/ NetworkRandom
    \/ Forward
    \/ LossApply

SpecBuild == Init /\ [][NextBuild]_vars

\* no call has been made on the network yet
FirstCall == ncalls = 0

\* the user makes a single call on a freshly built network
NextOnce ==
    \/ NetworkZeros
    \/ NetworkRandom
    \/ FirstCall /\ Forward
    \/ LossApply
    \/ FirstCall /\ Backpropagate
    \/ FirstCall /\ Learn
    \/ BpForward
    \/ BpLossGradient
    \/ BpLastStep
    \/ BpLoopStep
    \/ BpReturn
    \/ LearnApply

SpecOnce == Init /\ [][NextOnce]_vars

\* ------------------------------------------- the computation, as functions
\* the steps of the layers i, i - 1, ..., 1 for one sample
RECURSIVE StepDown(_, _, _, _)
StepDown(layers, i, previous_outputs, gradient) ==
    LET r == backpropagation_step(layers[i], previous_outputs, gradient)
        stepped == [layers EXCEPT ![i] = r.layer]
    IN
    IF InRange(StepNext(i))
    THEN StepDown(stepped, StepNext(i), StepOutputs(stepped, StepNext(i)),
                  r.input_partial_gradient)
    ELSE stepped

\* one round of backpropagate's loop over the dataset, for a sample that fits
BackpropSample(layers, sample) ==
    LET f == Network_forward(layers, sample.inputs)
        g == LossFn_partial_gradient(f.out, sample.expected_outputs)
    IN StepDown(f.layers, Len(f.layers), f.out, g.val)

\* backpropagate over a dataset all of whose samples fit
RECURSIVE BackpropDataset(_, _)
BackpropDataset(layers, dataset) ==
    IF dataset = <<>> THEN layers
    ELSE BackpropDataset(BackpropSample(layers, Head(dataset)), Tail(dataset))

\* the layers with both accumulators zeroed
ZeroGradients(layers) ==
    [i \in 1..Len(layers) |->
       [layers[i] EXCEPT
          !.weight_gradient = Fill(output_size(layers[i]), Fill(input_size(layers[i]), 0)),
          !.bias_gradient = Fill(output_size(layers[i]), 0)]]

\* what backpropagate over the dataset alone leaves in the accumulators
Alone(layers, dataset) == BackpropDataset(ZeroGradients(layers), dataset)

\* the input of layer j in the forward pass of input x (j = number of layers
\* + 1: the output of the network)
RECURSIVE ActInto(_, _, _)
ActInto(layers, j, x) ==
    IF j = 1 THEN x
    ELSE LET a == ActInto(layers, j - 1, x)
             l == layers[j - 1]
         IN [o \in 1..Len(l.weights) |-> Sigmoid_apply(Dot(l.weights[o], a) + l.biases[o])]

WeightedSums(layers, j, x) ==
    [o \in 1..Len(layers[j].weights) |->
       Dot(layers[j].weights[o], ActInto(layers, j, x)) + layers[j].biases[o]]

\* ------------------------------------------------------------------ claims
Valid(sizes) == Len(sizes) >= 2 /\ \A i \in 1..Len(sizes) : sizes[i] > 0

\* the call op has returned and nothing has been called since
Returned(op) == pc = "idle" /\ frame.op = op /\ ret.op = op

Layers == network.layers

NumLayers == Len(network.layers)

AllZero(l) ==
    /\ \A o \in 1..Len(l.weight_gradient) :
         \A i \in 1..Len(l.weight_gradient[o]) : l.weight_gradient[o][i] = 0
    /\ \A o \in 1..Len(l.bias_gradient) : l.bias_gradient[o] = 0

\* C1: a constructor given fewer than 2 sizes fails with TooFewLayers(number
\* of sizes), also when a size is 0; given 2 or more sizes one of which is 0
\* it fails with ZeroLayerSize(index of the first 0); no network is produced.
C1_ConstructorRejects ==
    pc # "new" =>
      /\ Len(layer_sizes) < 2 =>
           /\ pc = "failed"
           /\ ~network.some
           /\ ~ret.ok
           /\ ret.err = TooFewLayers(Len(layer_sizes))
      /\ (Len(layer_sizes) >= 2 /\ \E i \in 1..Len(layer_sizes) : layer_sizes[i] = 0) =>
           /\ pc = "failed"
           /\ ~network.some
           /\ ~ret.ok
           /\ \E i \in 1..Len(layer_sizes) :
                /\ layer_sizes[i] = 0
                /\ \A j \in 1..(i - 1) : layer_sizes[j] > 0
                /\ ret.err = ZeroLayerSize(i - 1)

C1_Witness ==
    /\ pc = "failed"
    /\ ret.op = "random"
    /\ Len(layer_sizes) = 3
    /\ layer_sizes[1] > 0
    /\ layer_sizes[2] = 0
    /\ layer_sizes[3] = 0
    /\ ret.err = ZeroLayerSize(1)

\* C2: for valid layer_sizes the constructors succeed with len - 1 layers,
\* layer i taking layer_sizes[i] inputs to layer_sizes[i + 1] outputs; forward
\* on an input of length layer_sizes[first] succeeds with an output of length
\* layer_sizes[last]; the chain of dimensions holds in every later state.
C2_DimensionChain ==
    (pc # "new" /\ Valid(layer_sizes)) =>
      /\ network.some
      /\ pc # "failed"
      /\ (ret.op \in {"zeros", "random"} => ret.ok)
      /\ NumLayers = Len(layer_sizes) - 1
      /\ \A i \in 1..NumLayers :
           /\ output_size(Layers[i]) = layer_sizes[i + 1]
           /\ \A o \in 1..output_size(Layers[i]) :
                /\ Len(Layers[i].weights[o]) = layer_sizes[i]
                /\ Len(Layers[i].weight_gradient[o]) = layer_sizes[i]
           /\ Len(Layers[i].weight_gradient) = layer_sizes[i + 1]
           /\ Len(Layers[i].biases) = layer_sizes[i + 1]
           /\ Len(Layers[i].bias_gradient) = layer_sizes[i + 1]
           /\ i < NumLayers => output_size(Layers[i]) = input_size(Layers[i + 1])
      /\ (Returned("forward") /\ Len(frame.input) = layer_sizes[1]) =>
           /\ ret.ok
           /\ Len(ret.val) = layer_sizes[Len(layer_sizes)]

C2_Witness ==
    /\ Returned("forward")
    /\ ret.ok
    /\ layer_sizes = <<2, 1, 2>>
    /\ Len(ret.val) = 2
    /\ ncalls = 2
    /\ Layers[1].weights # entry[1].weights \/ ~AllZero(Layers[1])

\* C3: forward on an input whose length differs from the first layer's input
\* size fails with LayerError(InputSizeMismatch(layer's input size, given
\* length)) and leaves the weights and biases of every layer unchanged.
C3_ForwardMismatch ==
    (Returned("forward") /\ Len(frame.input) # input_size(Layers[1])) =>
      /\ ~ret.ok
      /\ ret.err = LayerError(InputSizeMismatch(input_size(Layers[1]), Len(frame.input)))
      /\ \A i \in 1..NumLayers :
           /\ Layers[i].weights = entry[i].weights
           /\ Layers[i].biases = entry[i].biases

C3_Witness ==
    /\ Returned("forward")
    /\ ~ret.ok
    /\ NumLayers = 2
    /\ Len(frame.input) = 1
    /\ input_size(Layers[1]) = 2
    /\ \E o \in 1..output_size(Layers[1]) : Layers[1].weights[o][1] # 0

\* C4: learn on an empty dataset returns Ok at once and leaves every layer's
\* weights, biases and accumulators (and caches) as they were, whatever the
\* rate and the prior state.
C4_LearnEmpty ==
    (frame.op = "learn" /\ frame.len = 0) =>
      /\ pc = "idle"
      /\ ret.op = "learn"
      /\ ret.ok
      /\ Layers = entry

C4_Witness ==
    /\ Returned("learn")
    /\ frame.len = 0
    /\ ret.ok
    /\ \E i \in 1..NumLayers : ~AllZero(Layers[i])

\* the entry-wise sum of what each dataset of the chain alone leaves in
\* layer i's accumulators
RECURSIVE SumWeightGradient(_, _, _, _, _)
SumWeightGradient(layers, datasets, i, o, j) ==
    IF datasets = <<>> THEN 0
    ELSE Alone(layers, Head(datasets))[i].weight_gradient[o][j]
           + SumWeightGradient(layers, Tail(datasets), i, o, j)

RECURSIVE SumBiasGradient(_, _, _, _)
SumBiasGradient(layers, datasets, i, o) ==
    IF datasets = <<>> THEN 0
    ELSE Alone(layers, Head(datasets))[i].bias_gradient[o]
           + SumBiasGradient(layers, Tail(datasets), i, o)

\* C5: successive successful backpropagate calls with no apply_gradient in
\* between, started from zeroed accumulators, leave in every accumulator
\* the entry-wise sum of what each call alone would have produced from
\* zeroed accumulators and the same weights and biases.
C5_Additive ==
    (pc = "idle" /\ clean /\ network.some) =>
      \A i \in 1..NumLayers :
        \A o \in 1..output_size(Layers[i]) :
          /\ Layers[i].bias_gradient[o] = SumBiasGradient(Layers, chain, i, o)
          /\ \A j \in 1..input_size(Layers[i]) :
               Layers[i].weight_gradient[o][j] = SumWeightGradient(Layers, chain, i, o, j)

C5_Witness ==
    /\ Returned("backpropagate")
    /\ clean
    /\ Len(chain) = 2
    /\ Len(chain[1]) = 1
    /\ Len(chain[2]) = 2
    /\ chain[2][1] # chain[2][2]
    /\ NumLayers = 2
    /\ \A i \in 1..NumLayers : ~AllZero(Layers[i])

\* C6: apply_gradient leaves both accumulators of the layer all zero, so
\* after every successful learn on a non-empty dataset every accumulator of
\* every layer is zero.
C6_AccumulatorsReset ==
    (Returned("learn") /\ ret.ok /\ frame.len > 0) =>
      \A i \in 1..NumLayers : AllZero(Layers[i])

C6_Witness ==
    /\ Returned("learn")
    /\ ret.ok
    /\ frame.len = 2
    /\ frame.rate = 2
    /\ NumLayers = 2
    /\ \A i \in 1..NumLayers : Layers[i].weights # entry[i].weights
    /\ \E i \in 1..NumLayers : ~AllZero(entry[i])

\* C7: a successful learn on a non-empty dataset changes the weights and
\* biases of every layer by -rate / len times the sum of the gradients of the
\* samples of this call's dataset alone, after any earlier forward and learn
\* calls, failed ones included.
C7_UpdateFromThisCallOnly ==
    (Returned("learn") /\ ret.ok /\ frame.len > 0) =>
      LET g == Alone(entry, frame.dataset)
          scale == LearnScale(frame.rate, frame.len)
      IN \A i \in 1..NumLayers :
           \A o \in 1..output_size(Layers[i]) :
             /\ Layers[i].biases[o] = entry[i].biases[o] + g[i].bias_gradient[o] * scale
             /\ \A j \in 1..input_size(Layers[i]) :
                  Layers[i].weights[o][j] =
                      entry[i].weights[o][j] + g[i].weight_gradient[o][j] * scale

\* C8: the loss validates lengths first.  apply and partial_gradient fail
\* with OutputSizeMismatch(output length, expected length) when the lengths
\* differ, without evaluating the underlying loss; when they agree the
\* gradient is as long as the output; in backpropagate (and learn) a sample
\* whose expected output does not fit the network's output makes the call
\* fail with that error as LossFnError.
C8_LossValidates ==
    /\ frame.op = "loss_apply" =>
         LET o == frame.outputs
             e == frame.dataset[1].expected_outputs
         IN IF Len(o) # Len(e)
            THEN /\ ~ret.ok
                 /\ ~ret.inner
                 /\ ret.err = OutputSizeMismatch(Len(o), Len(e))
            ELSE ret.ok /\ ret.inner
    /\ pc = "bp_last" =>
         /\ Len(Sample.expected_outputs) = Len(frame.outputs)
         /\ Len(frame.gradient) = Len(frame.outputs)
    /\ ( /\ pc = "idle"
         /\ frame.op \in {"backpropagate", "learn"}
         /\ frame.dataset # <<>>
         /\ Len(Sample.inputs) = layer_sizes[1]
         /\ Len(Sample.expected_outputs) # layer_sizes[Len(layer_sizes)] ) =>
         /\ ret.op = frame.op
         /\ ~ret.ok
         /\ ~ret.inner
         /\ ret.err = LossFnError(OutputSizeMismatch(layer_sizes[Len(layer_sizes)],
                                                     Len(Sample.expected_outputs)))

C8_Witness ==
    /\ Returned("backpropagate")
    /\ ~ret.ok
    /\ ret.err.tag = "LossFnError"
    /\ Len(frame.dataset) = 2
    /\ Len(frame.outputs) = 1
    /\ Len(Sample.expected_outputs) = 2
    /\ NumLayers = 2

\* the loop over the dataset stands inside the round of the current sample,
\* after its forward pass
InSample ==
    \/ pc \in {"bp_loss", "bp_last", "bp_loop"}
    \/ pc = "bp_forward" /\ frame.dataset # <<>>

\* C9: in backpropagate every sample gets one full forward pass, then one
\* backpropagation_step per layer from the last layer down to the first,
\* before the next sample's forward pass.  Each step reads the caches that
\* sample's forward pass wrote; the last layer is handed the network's output
\* and the loss gradient, layer i the input cached by layer i + 1 and the
\* input-gradient returned by layer i + 1.
C9_BackwardOrder ==
    InSample =>
      /\ \A j \in 1..NumLayers :
           /\ Layers[j].previous_inputs = ActInto(Layers, j, Sample.inputs)
           /\ Layers[j].previous_weighted_sums = WeightedSums(Layers, j, Sample.inputs)
      /\ frame.outputs = ActInto(Layers, NumLayers + 1, Sample.inputs)
      /\ pc \in {"bp_loss", "bp_last"} => steps = <<>>
      /\ pc = "bp_loop" =>
           /\ Len(steps) >= 1
           /\ Len(steps) < NumLayers
           /\ frame.i = NumLayers - Len(steps)
      /\ pc = "bp_forward" => Len(steps) = NumLayers
      /\ \A k \in 1..Len(steps) :
           /\ steps[k].layer = NumLayers - k + 1
           /\ steps[k].previous_inputs = ActInto(Layers, steps[k].layer, Sample.inputs)
           /\ steps[k].previous_weighted_sums =
                  WeightedSums(Layers, steps[k].layer, Sample.inputs)
           /\ steps[k].previous_outputs =
                  ActInto(Layers, steps[k].layer + 1, Sample.inputs)
           /\ IF k = 1
              THEN /\ steps[k].previous_outputs = frame.outputs
                   /\ steps[k].output_partial_gradient =
                          LossFn_partial_gradient(frame.outputs,
                                                  Sample.expected_outputs).val
              ELSE /\ steps[k].previous_outputs =
                          Layers[steps[k - 1].layer].previous_inputs
                   /\ steps[k].output_partial_gradient =
                          steps[k - 1].input_partial_gradient

C9_Witness ==
    /\ pc = "bp_forward"
    /\ NumLayers = 2
    /\ Len(frame.dataset) = 2
    /\ frame.dataset[1].inputs # frame.dataset[2].inputs
    /\ Len(steps) = 2
    /\ steps[2].layer = 1
    /\ steps[2].previous_inputs = frame.dataset[2].inputs
    /\ \E j \in 1..Len(steps[2].output_partial_gradient) :
         steps[2].output_partial_gradient[j] # 0

\* C10: a learn call that returns an error leaves the weights and biases of
\* every layer exactly as they were before the call.
C10_FailedLearnKeepsWeights ==
    (Returned("learn") /\ ~ret.ok) =>
      \A i \in 1..NumLayers :
        /\ Layers[i].weights = entry[i].weights
        /\ Layers[i].biases = entry[i].biases

C10_Witness ==
    /\ Returned("learn")
    /\ ~ret.ok
    /\ Len(frame.dataset) = 2
    /\ NumLayers = 2
    /\ ret.err.tag = "LayerError"
    /\ \A i \in 1..NumLayers : ~AllZero(Layers[i])
    /\ \A i \in 1..NumLayers : AllZero(entry[i])

====
